---- MODULE Spec2Model ----
(***************************************************************************)
(* A model of shady's viewer (src/main.rs): load_images reconciles the     *)
(* display list against the images of the script, and main runs the       *)
(* render loop: poll the watcher, reload, poll each window's events,       *)
(* snapshot on a click inside the window, draw, drop the closed windows.   *)
(***************************************************************************)
EXTENDS Integers, Sequences, FiniteSets, TLC

\* ------------------------------------------------------------------ bounds
MaxImages == 2      \* images in one script
MaxQueue == 2       \* change notifications pending in the channel
MaxEvents == 2      \* events one poll_events() call of a window returns
MaxSaves == 2       \* snapshots written before the user stops clicking
MaxHandles == 2     \* windows created in one run

\* ------------------------------------------------- the script and its images
\* The initial window dimension (with_dimensions(500, 500)).
InitDim == 500

\* What analysis yields for one image: the generated fragment shader and the
\* uniforms it needs.  "bad" is a shader Program::from_source rejects.
Images ==
    { [shader |-> "bad", uniforms |-> <<>>],
      [shader |-> "s1",  uniforms |-> <<"Time">>],
      [shader |-> "s2",  uniforms |-> <<"MouseX", "MouseY">>] }

RECURSIVE SeqsUpTo(_, _)
SeqsUpTo(S, n) ==
    IF n = 0 THEN { <<>> }
    ELSE LET shorter == SeqsUpTo(S, n - 1)
         IN  shorter \cup { Append(s, x) : s \in { t \in shorter : Len(t) = n - 1 }, x \in S }

\* The text of the script file: unparsable, parsable but rejected by
\* analysis, or a script declaring a list of images.
Texts ==
    { [kind |-> "unparsable", images |-> <<>>],
      [kind |-> "unanalysable", images |-> <<>>] }
    \cup { [kind |-> "script", images |-> imgs] : imgs \in SeqsUpTo(Images, MaxImages) }

\* What reading the file yields: an I/O error or a text.
IOFailure == [kind |-> "ioerror", images |-> <<>>]
ReadResults == { IOFailure } \cup Texts

\* ------------------------------------------------------------------ inputs
\* The nanoseconds in a second (the divisor 1000000000.0).
NanosPerSec == 1000000000

\* The instants, in nanoseconds since the process started, at which the
\* clock is read.
Instants ==
    { NanosPerSec \div 2, NanosPerSec - 1, NanosPerSec,
      NanosPerSec + NanosPerSec \div 2, 2 * NanosPerSec - 1 }

WinSizes == { <<InitDim, InitDim>>, <<2 * InitDim, 2 * InitDim>> }

MousePoints ==
    { <<1, 1>>, <<0, 1>>, <<1, 0>>, <<InitDim, 1>>, <<1, InitDim>> }

Events ==
    { [type |-> "Closed", pos |-> <<0, 0>>],
      [type |-> "Press", pos |-> <<0, 0>>],
      [type |-> "Other", pos |-> <<0, 0>>] }
    \cup { [type |-> "MouseMoved", pos |-> p] : p \in MousePoints }

VARIABLES
    once,        \* --once was given
    keepArg,     \* --keep was given
    keep,        \* main's `keep`
    watcher,     \* a watcher is installed on the script
    queue,       \* notifications pending in the watcher's channel
    displays,    \* main's `displays`
    nextHandle,  \* the next window the window system hands out
    pc,          \* where main is
    i,           \* the display the frame's for loop is at (1-based)
    size,        \* `size` of the display being processed
    save,        \* `save` of the display being processed
    nev,         \* events polled so far by the display being processed
    saves,       \* main's `saves`
    files,       \* the suffixes of the PNG files created, in order
    loadFailed,  \* the last load_images call of this frame returned an Err
    load,        \* the load_images call that has just returned, until the frame
                 \* moves on: its result, the displays there were before it (m)
                 \* and the images the script declares (n)
    hits,        \* presses strictly inside the window polled by the display last processed
    misses,      \* presses not strictly inside polled by the display last processed
    drawn,       \* the on-screen render calls of this frame, in order
    now,         \* the clock: nanoseconds since the process started
    time,        \* main's `time`: the instant the clock was last reset at
    duration     \* main's `duration` of this frame, in f32 nanoseconds
                 \* (the numerator of the quotient by NanosPerSec)

vars == << once, keepArg, keep, watcher, queue, displays, nextHandle, pc, i,
           size, save, nev, saves, files, loadFailed, load, hits, misses, drawn,
           now, time, duration >>

\* `size` outside the body of the for loop.
NoSize == <<0, 0>>

ghosts == << hits, misses >>

\* ------------------------------------------------------------- load_images
\* Program::from_source(...): a Result.
FromSource(shader) ==
    IF shader = "bad" THEN [ok |-> FALSE, program |-> "none"]
    ELSE [ok |-> TRUE, program |-> shader]

\* The Some(display) arm replacing the program and leaving the uniforms.
UpdateDisplayKeepingUniforms(d, idx, image) ==
    [d EXCEPT !.title = idx,
              !.program = FromSource(image.shader).program]

\* The Some(display) arm also putting the mouse position back at the origin.
UpdateDisplayResettingMouse(d, idx, image) ==
    [d EXCEPT !.title = idx,
              !.program = FromSource(image.shader).program,
              !.uniforms = image.uniforms,
              !.mouse_position = <<0, 0>>]

\* The Some(display) arm: retitle, recompile, replace the uniforms.
UpdateDisplay(d, idx, image) ==
    [d EXCEPT !.title = idx,
              !.program = FromSource(image.shader).program,
              !.uniforms = image.uniforms]

\* The None arm leaving the uniforms of the new display empty.
NewDisplayNoUniforms(handle, idx, image) ==
    [ handle |-> handle, buffer |-> handle, title |-> idx,
      program |-> FromSource(image.shader).program,
      uniforms |-> <<>>,
      mouse_position |-> <<0, 0>>, done |-> FALSE ]

\* The None arm: a new window with its program and uniforms.
NewDisplay(handle, idx, image) ==
    [ handle |-> handle, buffer |-> handle, title |-> idx,
      program |-> FromSource(image.shader).program,
      uniforms |-> image.uniforms,
      mouse_position |-> <<0, 0>>, done |-> FALSE ]

\* The closure looking the display of image idx up by its title, not by its
\* position in the list.
RECURSIVE WithImagesByTitle(_, _, _, _)
WithImagesByTitle(images, idx, ds, nh) ==
    IF idx >= Len(images)
    THEN [panic |-> FALSE, displays |-> ds, nextHandle |-> nh]
    ELSE LET image == images[idx + 1]
             compiled == FromSource(image.shader)
             found == { k \in 1..Len(ds) : ds[k].title = idx }
         IN  IF found # {}
             THEN IF ~compiled.ok
                  THEN [panic |-> TRUE, displays |-> ds, nextHandle |-> nh]
                  ELSE LET k == CHOOSE j \in found : TRUE
                       IN  WithImagesByTitle(images, idx + 1,
                                             [ds EXCEPT ![k] = UpdateDisplay(ds[k], idx, image)],
                                             nh)
             ELSE IF ~compiled.ok
                  THEN [panic |-> TRUE, displays |-> ds, nextHandle |-> nh + 1]
                  ELSE WithImagesByTitle(images, idx + 1,
                                         Append(ds, NewDisplay(nh, idx, image)),
                                         nh + 1)

\* The closure going on to the next image when a compilation fails.
RECURSIVE WithImagesSkipping(_, _, _, _)
WithImagesSkipping(images, idx, ds, nh) ==
    IF idx >= Len(images)
    THEN [panic |-> FALSE, displays |-> ds, nextHandle |-> nh]
    ELSE LET image == images[idx + 1]
             compiled == FromSource(image.shader)
         IN  IF idx < Len(ds)
             THEN IF ~compiled.ok
                  THEN WithImagesSkipping(images, idx + 1,
                                          [ds EXCEPT ![idx + 1].title = idx], nh)
                  ELSE WithImagesSkipping(images, idx + 1,
                                          [ds EXCEPT ![idx + 1] = UpdateDisplay(ds[idx + 1], idx, image)],
                                          nh)
             ELSE IF ~compiled.ok
                  THEN WithImagesSkipping(images, idx + 1, ds, nh + 1)
                  ELSE WithImagesSkipping(images, idx + 1,
                                          Append(ds, NewDisplay(nh, idx, image)),
                                          nh + 1)

\* The closure of sdy.with_images, run for image number idx (0-based) on:
\* ds is the display list and nh the next window handle.  The unwrap of a
\* failed compilation panics where it stands.
RECURSIVE WithImages(_, _, _, _)
WithImages(images, idx, ds, nh) ==
    IF idx >= Len(images)
    THEN [panic |-> FALSE, displays |-> ds, nextHandle |-> nh]
    ELSE LET image == images[idx + 1]
             compiled == FromSource(image.shader)
         IN  IF idx < Len(ds)
             THEN IF ~compiled.ok
                  THEN [panic |-> TRUE,
                        displays |-> [ds EXCEPT ![idx + 1].title = idx],
                        nextHandle |-> nh]
                  ELSE WithImages(images, idx + 1,
                                  [ds EXCEPT ![idx + 1] = UpdateDisplay(ds[idx + 1], idx, image)],
                                  nh)
             ELSE IF ~compiled.ok
                  THEN [panic |-> TRUE, displays |-> ds, nextHandle |-> nh + 1]
                  ELSE WithImages(images, idx + 1,
                                  Append(ds, NewDisplay(nh, idx, image)),
                                  nh + 1)

\* load_images clearing the display list as it clears the buffer, so that a
\* failed load loses the displays.
LoadImagesClearing(ds, nh, r) ==
    IF r.kind = "ioerror"
    THEN [result |-> "io", displays |-> <<>>, nextHandle |-> nh]
    ELSE IF r.kind = "unparsable"
    THEN [result |-> "parse", displays |-> <<>>, nextHandle |-> nh]
    ELSE IF r.kind = "unanalysable"
    THEN [result |-> "analyse", displays |-> <<>>, nextHandle |-> nh]
    ELSE LET w == WithImages(r.images, 0, <<>>, nh)
         IN  [result |-> IF w.panic THEN "panic" ELSE "ok",
              displays |-> w.displays, nextHandle |-> w.nextHandle]

\* load_images dropping the displays beyond the images of the script.
LoadImagesTruncating(ds, nh, r) ==
    IF r.kind = "ioerror"
    THEN [result |-> "io", displays |-> ds, nextHandle |-> nh]
    ELSE IF r.kind = "unparsable"
    THEN [result |-> "parse", displays |-> ds, nextHandle |-> nh]
    ELSE IF r.kind = "unanalysable"
    THEN [result |-> "analyse", displays |-> ds, nextHandle |-> nh]
    ELSE LET w == WithImages(r.images, 0, ds, nh)
         IN  [result |-> IF w.panic THEN "panic" ELSE "ok",
              displays |-> IF w.panic THEN w.displays
                           ELSE SubSeq(w.displays, 1, Len(r.images)),
              nextHandle |-> w.nextHandle]

\* load_images whose caller unwraps the result: an Err panics.
LoadImagesUnwrapped(ds, nh, r) ==
    IF r.kind \in { "ioerror", "unparsable", "unanalysable" }
    THEN [result |-> "panic", displays |-> ds, nextHandle |-> nh]
    ELSE LET w == WithImages(r.images, 0, ds, nh)
         IN  [result |-> IF w.panic THEN "panic" ELSE "ok",
              displays |-> w.displays, nextHandle |-> w.nextHandle]

\* load_images(displays, path) when reading the file yields r.
LoadImages(ds, nh, r) ==
    IF r.kind = "ioerror"
    THEN [result |-> "io", displays |-> ds, nextHandle |-> nh]
    ELSE IF r.kind = "unparsable"
    THEN [result |-> "parse", displays |-> ds, nextHandle |-> nh]
    ELSE IF r.kind = "unanalysable"
    THEN [result |-> "analyse", displays |-> ds, nextHandle |-> nh]
    ELSE LET w == WithImages(r.images, 0, ds, nh)
         IN  [result |-> IF w.panic THEN "panic" ELSE "ok",
              displays |-> w.displays, nextHandle |-> w.nextHandle]

\* if let Err(err) = load_images(...)
IsErr(result) == result \in { "io", "parse", "analyse" }

\* Windows a load of r would create (the model runs out of them at MaxHandles).
WindowsNeeded(ds, r) ==
    IF Len(r.images) > Len(ds) THEN Len(r.images) - Len(ds) ELSE 0

\* -------------------------------------------------------------------- main
\* No load_images call has just returned.
NoLoad == [result |-> "none", m |-> 0, n |-> 0]

\* The record of a load_images call that found ds and read r.
LoadRecord(result, ds, r) == [result |-> result, m |-> Len(ds), n |-> Len(r.images)]

Init ==
    /\ once \in BOOLEAN
    /\ keepArg \in BOOLEAN
    /\ keep = FALSE
    /\ watcher = FALSE
    /\ queue = 0
    /\ displays = <<>>
    /\ nextHandle = 1
    /\ pc = "start"
    /\ i = 1
    /\ size = NoSize
    /\ save = FALSE
    /\ nev = 0
    /\ saves = 0
    /\ files = <<>>
    /\ loadFailed = FALSE
    /\ load = NoLoad
    /\ hits = 0
    /\ misses = 0
    /\ drawn = <<>>
    /\ now = 0
    /\ time = 0
    /\ duration = 0

\* keep taken from --keep alone.
KeepOptionIgnoresOnce(o, k) == k

\* let keep = !once && matches.is_present("keep")
KeepOption(o, k) == ~o /\ k

\* The watcher installed whatever --once says.
WatcherAlways(o) == TRUE

\* if once { None } else { Some((rx, watcher)) }
WatcherInstalled(o) == ~o

\* main up to the loop: the flags, the initial load, the watcher.
Startup(r) ==
    /\ pc = "start"
    /\ nextHandle + WindowsNeeded(displays, r) <= MaxHandles + 1
    /\ LET l == LoadImages(displays, nextHandle, r)
       IN  /\ displays' = l.displays
           /\ nextHandle' = l.nextHandle
           /\ load' = LoadRecord(l.result, displays, r)
           /\ loadFailed' = IsErr(l.result)
           /\ pc' = IF l.result = "panic" THEN "panic" ELSE "poll"
    /\ keep' = KeepOption(once, keepArg)
    /\ watcher' = WatcherInstalled(once)
    /\ time' = now
    /\ UNCHANGED << once, keepArg, queue, i, size, save, nev, saves, files, drawn >>
    /\ UNCHANGED << now, duration >>
    /\ UNCHANGED ghosts

\* The script file changes on disk: the watcher's thread, if there is one,
\* sends a notification.
FileChange ==
    /\ pc \notin { "start", "exit", "panic" }
    /\ queue < MaxQueue
    /\ queue' = IF watcher THEN queue + 1 ELSE queue
    /\ UNCHANGED << once, keepArg, keep, watcher, displays, nextHandle, pc, i,
                    size, save, nev, saves, files, loadFailed, load, drawn >>
    /\ UNCHANGED << now, time, duration >>
    /\ UNCHANGED ghosts

\* The clock moves on to a later instant.
Tick(t) ==
    /\ pc \notin { "exit", "panic" }
    /\ t > now
    /\ now' = t
    /\ UNCHANGED << once, keepArg, keep, watcher, queue, displays, nextHandle, pc, i,
                    size, save, nev, saves, files, loadFailed, load, drawn >>
    /\ UNCHANGED << time, duration >>
    /\ UNCHANGED ghosts

\* rx.try_recv() is Ok
Pending == watcher /\ queue > 0

\* The channel drained by one receive.
TryRecvAll(q) == 0

\* What rx.try_recv() leaves in a channel of q > 0 notifications: it takes
\* one.
TryRecv(q) == q - 1

\* `time` reset at the top of every frame, pending notification or not.
TimeAfterPollAlways(pending, t, n) == n

\* `time` after the poll of the channel: if let Ok(_) = rx.try_recv()
\* { time = Instant::now(); ... }, with t the old value and n the clock.
TimeAfterPoll(pending, t, n) == IF pending THEN n ELSE t

\* Top of the loop with a notification pending: reset the time, reload.
Reload(r) ==
    /\ pc = "poll"
    /\ Pending
    /\ nextHandle + WindowsNeeded(displays, r) <= MaxHandles + 1
    /\ queue' = TryRecv(queue)
    /\ LET l == LoadImages(displays, nextHandle, r)
       IN  /\ displays' = l.displays
           /\ nextHandle' = l.nextHandle
           /\ load' = LoadRecord(l.result, displays, r)
           /\ loadFailed' = IsErr(l.result)
           /\ pc' = IF l.result = "panic" THEN "panic" ELSE "elapsed"
    /\ time' = TimeAfterPoll(TRUE, time, now)
    /\ i' = 1
    /\ UNCHANGED << once, keepArg, keep, watcher, size, save, nev, saves, files, drawn >>
    /\ UNCHANGED << now, duration >>
    /\ UNCHANGED ghosts

\* Top of the loop with no watcher or nothing pending.
NoReload ==
    /\ pc = "poll"
    /\ ~Pending
    /\ pc' = "elapsed"
    /\ time' = TimeAfterPoll(FALSE, time, now)
    /\ i' = 1
    /\ UNCHANGED << once, keepArg, keep, watcher, queue, displays, nextHandle,
                    size, save, nev, saves, files, loadFailed, load, drawn >>
    /\ UNCHANGED << now, duration >>
    /\ UNCHANGED ghosts

\* The unit in the last place of the f32 nearest to n, found from p upwards:
\* an f32 has 24 significant bits.
RECURSIVE Ulp(_, _)
Ulp(n, p) == IF n \div p < 2 ^ 24 THEN p ELSE Ulp(n, 2 * p)

\* `n as f32` for an unsigned n: the nearest f32, ties to even.
ToF32(n) ==
    LET p == Ulp(n, 1)
        q == n \div p
        rest == n % p
    IN  IF 2 * rest > p \/ (2 * rest = p /\ q % 2 = 1) THEN (q + 1) * p ELSE q * p

\* The whole elapsed time in nanoseconds, seconds included.
SubsecNanosWhole(e) == e

\* Duration::subsec_nanos() of an elapsed time of e nanoseconds.
SubsecNanos(e) == e % NanosPerSec

\* let duration = time.elapsed().subsec_nanos() as f32 / 1000000000.0
Elapsed ==
    /\ pc = "elapsed"
    /\ duration' = ToF32(SubsecNanos(now - time))
    /\ pc' = "display"
    /\ UNCHANGED << once, keepArg, keep, watcher, queue, displays, nextHandle, i,
                    size, save, nev, saves, files, loadFailed, load, drawn >>
    /\ UNCHANGED << now, time >>
    /\ UNCHANGED ghosts

\* The condition of the press arm without the comparison with the height.
InsideWindowNoHeight(pos, sz) ==
    pos[1] > 0 /\ pos[2] > 0 /\ pos[1] < sz[1]

\* The condition of the press arm with the window's edges counted as inside.
InsideWindowInclusive(pos, sz) ==
    pos[1] >= 0 /\ pos[2] >= 0 /\ pos[1] <= sz[1] /\ pos[2] <= sz[2]

\* The condition of the press arm.
InsideWindow(pos, sz) ==
    pos[1] > 0 /\ pos[2] > 0 /\ pos[1] < sz[1] /\ pos[2] < sz[2]

\* One arm of the match on an event: the display and `save` afterwards.
HandleEvent(d, sv, sz, ev) ==
    IF ev.type = "Closed" THEN [display |-> [d EXCEPT !.done = TRUE], save |-> sv]
    ELSE IF ev.type = "MouseMoved"
    THEN [display |-> [d EXCEPT !.mouse_position = ev.pos], save |-> sv]
    ELSE IF ev.type = "Press"
    THEN [display |-> d, save |-> IF InsideWindow(d.mouse_position, sz) THEN TRUE ELSE sv]
    ELSE [display |-> d, save |-> sv]

\* The file name of the snapshot: save{saves}.png
SaveName(n) == n

\* The counter left where it is.
NextSaveStuck(n) == n

\* saves += 1
NextSave(n) == n + 1

\* A position strictly inside a window of size sz, as the claims word it.
StrictlyInside(pos, sz) ==
    /\ 0 < pos[1] /\ pos[1] < sz[1]
    /\ 0 < pos[2] /\ pos[2] < sz[2]

\* for display in &mut displays: read the window's size, save = false.
BeginDisplay(sz) ==
    /\ pc = "display"
    /\ i <= Len(displays)
    /\ pc' = "events"
    /\ size' = sz
    /\ save' = FALSE
    /\ nev' = 0
    /\ hits' = 0
    /\ misses' = 0
    /\ load' = NoLoad
    /\ UNCHANGED << once, keepArg, keep, watcher, queue, displays, nextHandle, i,
                    saves, files, loadFailed, drawn >>
    /\ UNCHANGED << now, time, duration >>

\* One iteration of `for event in display.display.poll_events()`.  The user
\* stops clicking once MaxSaves snapshots are written.
PollEvent(ev) ==
    /\ pc = "events"
    /\ nev < MaxEvents
    /\ ev.type = "Press" => saves < MaxSaves
    /\ LET h == HandleEvent(displays[i], save, size, ev)
           inside == StrictlyInside(displays[i].mouse_position, size)
       IN  /\ displays' = [displays EXCEPT ![i] = h.display]
           /\ save' = h.save
           /\ hits' = IF ev.type = "Press" /\ inside THEN hits + 1 ELSE hits
           /\ misses' = IF ev.type = "Press" /\ ~inside THEN misses + 1 ELSE misses
    /\ nev' = nev + 1
    /\ UNCHANGED << once, keepArg, keep, watcher, queue, nextHandle, pc, i, size,
                    saves, files, loadFailed, load, drawn >>
    /\ UNCHANGED << now, time, duration >>

\* One entry of uniform! { ... }: a uniform name and the value bound to it.
Bind(name, value) == [name |-> name, value |-> value]

\* render with the arm of [Time, MouseY] binding mouse_x.
RenderMisbinding(uniforms, t, mx, my) ==
    IF uniforms = <<>> THEN [panic |-> FALSE, bound |-> {}]
    ELSE IF uniforms = << "Time" >>
    THEN [panic |-> FALSE, bound |-> { Bind("time", t) }]
    ELSE IF uniforms = << "MouseX" >>
    THEN [panic |-> FALSE, bound |-> { Bind("mouse_x", mx) }]
    ELSE IF uniforms = << "MouseY" >>
    THEN [panic |-> FALSE, bound |-> { Bind("mouse_y", my) }]
    ELSE IF uniforms = << "Time", "MouseX" >>
    THEN [panic |-> FALSE, bound |-> { Bind("time", t), Bind("mouse_x", mx) }]
    ELSE IF uniforms = << "Time", "MouseY" >>
    THEN [panic |-> FALSE, bound |-> { Bind("time", t), Bind("mouse_x", mx) }]
    ELSE IF uniforms = << "MouseX", "MouseY" >>
    THEN [panic |-> FALSE, bound |-> { Bind("mouse_x", mx), Bind("mouse_y", my) }]
    ELSE IF uniforms = << "Time", "MouseX", "MouseY" >>
    THEN [panic |-> FALSE, bound |-> { Bind("time", t), Bind("mouse_x", mx), Bind("mouse_y", my) }]
    ELSE [panic |-> TRUE, bound |-> {}]

\* render(surface, program, buffer, uniforms, time, mx, my): the match on
\* the slice of uniforms, arm by arm; the last arm panics.
Render(uniforms, t, mx, my) ==
    IF uniforms = <<>> THEN [panic |-> FALSE, bound |-> {}]
    ELSE IF uniforms = << "Time" >>
    THEN [panic |-> FALSE, bound |-> { Bind("time", t) }]
    ELSE IF uniforms = << "MouseX" >>
    THEN [panic |-> FALSE, bound |-> { Bind("mouse_x", mx) }]
    ELSE IF uniforms = << "MouseY" >>
    THEN [panic |-> FALSE, bound |-> { Bind("mouse_y", my) }]
    ELSE IF uniforms = << "Time", "MouseX" >>
    THEN [panic |-> FALSE, bound |-> { Bind("time", t), Bind("mouse_x", mx) }]
    ELSE IF uniforms = << "Time", "MouseY" >>
    THEN [panic |-> FALSE, bound |-> { Bind("time", t), Bind("mouse_y", my) }]
    ELSE IF uniforms = << "MouseX", "MouseY" >>
    THEN [panic |-> FALSE, bound |-> { Bind("mouse_x", mx), Bind("mouse_y", my) }]
    ELSE IF uniforms = << "Time", "MouseX", "MouseY" >>
    THEN [panic |-> FALSE, bound |-> { Bind("time", t), Bind("mouse_x", mx), Bind("mouse_y", my) }]
    ELSE [panic |-> TRUE, bound |-> {}]

\* The two call sites of render, for display d in a window of size sz: the
\* time is duration / NanosPerSec and the mouse coordinates are divided by
\* the size, each quotient kept as the pair of its terms.
RenderDisplay(d, sz) ==
    Render(d.uniforms,
           << duration, NanosPerSec >>,
           << d.mouse_position[1], sz[1] >>,
           << d.mouse_position[2], sz[2] >>)

\* What the render call on the window's surface drew: the window, the
\* program and the uniforms of the display, and the values bound.
RenderCall(d, sz) ==
    [ handle |-> d.handle, program |-> d.program,
      uniforms |-> d.uniforms, bound |-> RenderDisplay(d, sz).bound ]

\* The display is rendered on screen; the for loop moves on.  A render call
\* that panics ends the run.
Drawn ==
    /\ pc' = IF RenderDisplay(displays[i], size).panic THEN "panic" ELSE "display"
    /\ drawn' = IF RenderDisplay(displays[i], size).panic THEN drawn
                 ELSE Append(drawn, RenderCall(displays[i], size))
    /\ i' = i + 1
    /\ size' = NoSize
    /\ save' = FALSE
    /\ nev' = 0
    /\ UNCHANGED << once, keepArg, keep, watcher, queue, displays, nextHandle,
                    loadFailed, load, hits, misses >>
    /\ UNCHANGED << now, time, duration >>

\* poll_events() is exhausted and save is false: draw on screen.
Draw ==
    /\ pc = "events"
    /\ ~save
    /\ Drawn
    /\ UNCHANGED << saves, files >>

\* save is true: render off screen (the same call of render, which panics
\* before anything is written if it panics at all), write the PNG, count it,
\* draw on screen.
Snapshot ==
    /\ pc = "events"
    /\ save
    /\ files' = IF RenderDisplay(displays[i], size).panic THEN files
                 ELSE Append(files, SaveName(saves))
    /\ saves' = IF RenderDisplay(displays[i], size).panic THEN saves
                 ELSE NextSave(saves)
    /\ Drawn

\* save is true and File::create or png::write fails: the unwrap panics.
\* created tells whether the file came to exist before the failure.
SnapshotFails(created) ==
    /\ pc = "events"
    /\ save
    /\ files' = IF created THEN Append(files, SaveName(saves)) ELSE files
    /\ pc' = "panic"
    /\ UNCHANGED << once, keepArg, keep, watcher, queue, displays, nextHandle, i, size,
                    save, nev, saves, loadFailed, load, hits, misses, drawn >>
    /\ UNCHANGED << now, time, duration >>

\* The closed displays left in the list.
RetainAll(ds) == ds

\* displays.retain(|display| !display.done)
Retain(ds) == SelectSeq(ds, LAMBDA d : ~d.done)

\* The break taken whenever the list is empty.
BreakWhenEmpty(ds, k) == ds = <<>>

\* if displays.is_empty() && !keep { break }
Break(ds, k) == ds = <<>> /\ ~k

\* The for loop is over: drop the closed displays, leave the loop or go on.
EndFrame ==
    /\ pc = "display"
    /\ i > Len(displays)
    /\ displays' = Retain(displays)
    /\ pc' = IF Break(displays', keep) THEN "exit" ELSE "poll"
    /\ i' = 1
    /\ load' = NoLoad
    /\ loadFailed' = FALSE
    /\ drawn' = <<>>
    /\ hits' = 0
    /\ misses' = 0
    /\ duration' = 0
    /\ UNCHANGED << once, keepArg, keep, watcher, queue, nextHandle, size, save, nev,
                    saves, files >>
    /\ UNCHANGED << now, time >>

\* Every step of main but the clock's, which SpecTime adds.
Next ==
    \/ \E r \in ReadResults : Startup(r)
    \/ FileChange
    \/ \E r \in ReadResults : Reload(r)
    \/ NoReload
    \/ Elapsed
    \/ \E sz \in WinSizes : BeginDisplay(sz)
    \/ \E ev \in Events : PollEvent(ev)
    \/ Draw
    \/ Snapshot
    \/ \E created \in BOOLEAN : SnapshotFails(created)
    \/ EndFrame

Spec == Init /\ [][Next]_vars

\* The reconciliation and the loop's control, with the windows only moved
\* over, closed or sent events main ignores, and never resized.
ReloadEvents ==
    { [type |-> "Closed", pos |-> <<0, 0>>],
      [type |-> "Other", pos |-> <<0, 0>>],
      [type |-> "MouseMoved", pos |-> <<1, 1>>] }

NextReload ==
    \/ \E r \in ReadResults : Startup(r)
    \/ FileChange
    \/ \E r \in ReadResults : Reload(r)
    \/ NoReload
    \/ Elapsed
    \/ BeginDisplay(<<InitDim, InitDim>>)
    \/ \E ev \in ReloadEvents : PollEvent(ev)
    \/ Draw
    \/ EndFrame

SpecReload == Init /\ [][NextReload]_vars

\* The snapshots, with scripts that always load and whose images all have
\* the same shader.
ClickReads ==
    { r \in Texts : r.kind = "script" /\ \A k \in 1..Len(r.images) : r.images[k].shader = "s1" }

NextClick ==
    \/ \E r \in ClickReads : Startup(r)
    \/ FileChange
    \/ \E r \in ClickReads : Reload(r)
    \/ NoReload
    \/ Elapsed
    \/ \E sz \in WinSizes : BeginDisplay(sz)
    \/ \E ev \in Events : PollEvent(ev)
    \/ Draw
    \/ Snapshot
    \/ \E created \in BOOLEAN : SnapshotFails(created)
    \/ EndFrame

SpecClick == Init /\ [][NextClick]_vars

\* The windows are moved over, clicked or closed.
CloseEvents ==
    { [type |-> "Closed", pos |-> <<0, 0>>],
      [type |-> "Press", pos |-> <<0, 0>>],
      [type |-> "MouseMoved", pos |-> <<1, 1>>] }

\* The closing of windows, with scripts that always load, snapshots that
\* are always written and windows never resized.
NextClose ==
    \/ \E r \in ClickReads : Startup(r)
    \/ FileChange
    \/ \E r \in ClickReads : Reload(r)
    \/ NoReload
    \/ Elapsed
    \/ BeginDisplay(<<InitDim, InitDim>>)
    \/ \E ev \in CloseEvents : PollEvent(ev)
    \/ Draw
    \/ Snapshot
    \/ EndFrame

SpecClose == Init /\ [][NextClose]_vars

\* What standalone_uniforms() of the script library returns for an image,
\* as the interface of the library is described: the uniforms the image
\* needs out of Time, MouseX and MouseY, each at most once, in that order.
\* One image for each such list.
RenderImages ==
    { [shader |-> "none", uniforms |-> <<>>],
      [shader |-> "t",    uniforms |-> << "Time" >>],
      [shader |-> "x",    uniforms |-> << "MouseX" >>],
      [shader |-> "y",    uniforms |-> << "MouseY" >>],
      [shader |-> "tx",   uniforms |-> << "Time", "MouseX" >>],
      [shader |-> "ty",   uniforms |-> << "Time", "MouseY" >>],
      [shader |-> "xy",   uniforms |-> << "MouseX", "MouseY" >>],
      [shader |-> "txy",  uniforms |-> << "Time", "MouseX", "MouseY" >>] }

\* The scripts of one of these images.
RenderReads ==
    { [kind |-> "script", images |-> << image >>] : image \in RenderImages }

\* The windows are moved over or closed.
RenderEvents ==
    { [type |-> "Closed", pos |-> <<0, 0>>],
      [type |-> "MouseMoved", pos |-> <<1, 1>>] }

\* The rendering, with images of every uniform list and windows never
\* resized.
NextRender ==
    \/ \E r \in RenderReads : Startup(r)
    \/ FileChange
    \/ \E r \in RenderReads : Reload(r)
    \/ NoReload
    \/ Elapsed
    \/ BeginDisplay(<<InitDim, InitDim>>)
    \/ \E ev \in RenderEvents : PollEvent(ev)
    \/ Draw
    \/ EndFrame

SpecRender == Init /\ [][NextRender]_vars

\* The scripts the clock is watched with: one that cannot be read and one
\* of a single image that needs the time.
TimeReads ==
    { IOFailure, [kind |-> "script", images |-> << [shader |-> "s1", uniforms |-> << "Time" >>] >>] }

\* The clock and the time passed to render, with windows only closed.
NextTime ==
    \/ \E r \in TimeReads : Startup(r)
    \/ FileChange
    \/ \E t \in Instants : Tick(t)
    \/ \E r \in TimeReads : Reload(r)
    \/ NoReload
    \/ Elapsed
    \/ BeginDisplay(<<InitDim, InitDim>>)
    \/ PollEvent([type |-> "Closed", pos |-> <<0, 0>>])
    \/ Draw
    \/ EndFrame

SpecTime == Init /\ [][NextTime]_vars

\* ------------------------------------------------------------------ claims
\* A step that is a call of load_images reading r: the initial load or a reload.
LoadStep(r) == Startup(r) \/ Reload(r)

\* Reading r makes load_images return an Err.
FailsToLoad(r) == r.kind \in { "ioerror", "unparsable", "unanalysable" }

\* A step in which load_images reads the script r and returns Ok.
LoadsOk(r) == LoadStep(r) /\ r.kind = "script" /\ pc' # "panic"

\* The handles of the windows in a display list.
Handles(ds) == { ds[k].handle : k \in 1..Len(ds) }

\* Display d carries the program and the uniform set of image.
Carries(d, image) == d.program = image.shader /\ d.uniforms = image.uniforms

\* The step that ends a frame.
EndsFrame == pc = "display" /\ pc' \in { "poll", "exit" }

\* The step that ends the body of the for loop for one display.
EndsDisplay == pc = "events" /\ pc' = "display"

\* C1: a call of load_images that fails with an I/O, parse or analysis error
\* leaves the display list exactly as it was: the same displays in the same
\* order, each with the same program, uniforms, mouse position and done flag.
C1_FailedLoadKeepsDisplays ==
    [][\A r \in ReadResults :
          LoadStep(r) /\ FailsToLoad(r)
              => /\ Len(displays') = Len(displays)
                 /\ \A k \in 1..Len(displays) :
                       /\ displays'[k].program = displays[k].program
                       /\ displays'[k].uniforms = displays[k].uniforms
                       /\ displays'[k].mouse_position = displays[k].mouse_position
                       /\ displays'[k].done = displays[k].done
                       /\ displays'[k].handle = displays[k].handle]_vars

\* A reload has just failed with two displays on screen, the first of which
\* has a mouse position of an earlier frame.
C1_Witness ==
    /\ pc = "display"
    /\ IsErr(load.result)
    /\ load.m = 2
    /\ Len(displays) = 2
    /\ displays[1].mouse_position # <<0, 0>>

\* C2: a successful load of N images against M <= N displays leaves exactly N
\* displays; the first M are the windows there were, in order, the other
\* N - M are new windows; display i carries the program and uniforms of image i.
C2_GrowingReload ==
    [][\A r \in ReadResults :
          LoadsOk(r) /\ Len(r.images) >= Len(displays)
              => /\ Len(displays') = Len(r.images)
                 /\ \A k \in 1..Len(displays) : displays'[k].handle = displays[k].handle
                 /\ \A k \in (Len(displays) + 1)..Len(r.images) :
                       /\ displays'[k].handle \notin Handles(displays)
                       /\ displays'[k].handle >= nextHandle
                       /\ \A j \in 1..Len(r.images) :
                             j # k => displays'[j].handle # displays'[k].handle
                 /\ \A k \in 1..Len(r.images) : Carries(displays'[k], r.images[k])]_vars

\* A reload of two images has just succeeded against one display.
C2_Witness ==
    /\ pc = "display"
    /\ load = [result |-> "ok", m |-> 1, n |-> 2]
    /\ Len(displays) = 2
    /\ displays[1].mouse_position # <<0, 0>>

\* C3: a successful load of N images against M > N displays leaves all M
\* displays, none removed or closed; the first N carry the program and
\* uniforms of the new images, the others are as they were.
C3_ShrinkingReload ==
    [][\A r \in ReadResults :
          LoadsOk(r) /\ Len(r.images) < Len(displays)
              => /\ Len(displays') = Len(displays)
                 /\ \A k \in 1..Len(displays) :
                       /\ displays'[k].handle = displays[k].handle
                       /\ displays'[k].done = displays[k].done
                 /\ \A k \in 1..Len(r.images) : Carries(displays'[k], r.images[k])
                 /\ \A k \in (Len(r.images) + 1)..Len(displays) :
                       displays'[k] = displays[k]]_vars

\* A reload of one image has just succeeded against two displays.
C3_Witness ==
    /\ pc = "display"
    /\ load = [result |-> "ok", m |-> 2, n |-> 1]
    /\ Len(displays) = 2

\* C4, as claimed: when a display has polled its events, the PNG files
\* written for it are as many as the presses it polled strictly inside the
\* window.
C4_OnePngPerPress ==
    [][EndsDisplay => Len(files') = Len(files) + hits]_vars

\* C4, amended: a display writes exactly one PNG file in a frame in which it
\* polls at least one press strictly inside the window, however many, and none
\* in a frame in which it polls no such press; `save` is set exactly when such
\* a press has been polled.
C4_OnePngPerDisplayFrame ==
    /\ [][EndsDisplay => Len(files') = Len(files) + (IF hits > 0 THEN 1 ELSE 0)]_vars
    /\ [](pc = "events" => (save <=> hits > 0))

\* A display has polled two presses inside the window in one frame and one
\* file exists.
C4_Witness ==
    /\ pc = "display"
    /\ hits = 2
    /\ files = << 0 >>

\* C5: the k-th file written, counting from 0, is save<k>.png, across all the
\* displays; the counter is the number of files written and never goes back,
\* whatever is reloaded or closed.
C5_SequentialNames ==
    /\ [](\A k \in 1..Len(files) : files[k] = k - 1)
    /\ [](pc # "panic" => saves = Len(files))
    /\ [][saves' >= saves]_vars

\* Two snapshots were written, the second by the display that survived the
\* closing of the first window.
C5_Witness ==
    /\ files = << 0, 1 >>
    /\ saves = 2
    /\ Len(displays) = 1
    /\ displays[1].handle = 2
    /\ pc = "display"
    /\ i = 2
    /\ hits > 0

\* C6: a press polled while the cached mouse position is not strictly inside
\* the window leaves `save`, the counter and the files alone; a display that
\* polled no press strictly inside writes no file in that frame.
C6_OutsidePressNoSnapshot ==
    /\ [][misses' > misses => save' = save /\ saves' = saves /\ files' = files]_vars
    /\ [][pc = "events" /\ pc' # "events" /\ hits = 0
             => saves' = saves /\ files' = files]_vars

\* A display was drawn after polling a move to x = width and a press there,
\* and no file exists.
C6_Witness ==
    /\ pc = "display"
    /\ i = 2
    /\ misses = 1
    /\ hits = 0
    /\ displays[1].mouse_position = << InitDim, 1 >>
    /\ files = <<>>

\* C7: a frame that ends with no display left ends the loop exactly when
\* keep is not set; keep is set only without --once; no display is drawn while
\* the list is empty; and an empty list becomes non-empty only by a load that
\* succeeds.
C7_EmptySetAndKeep ==
    /\ [][EndsFrame /\ displays' = <<>> => (pc' = "exit" <=> ~keep)]_vars
    /\ [][EndsFrame /\ displays' # <<>> => pc' = "poll"]_vars
    /\ [](keep => ~once /\ keepArg)
    /\ [](pc = "exit" => displays = <<>> /\ ~keep)
    /\ [](displays = <<>> /\ pc \in { "poll", "display" } => drawn = <<>>)
    /\ [][displays = <<>> /\ displays' # <<>> /\ pc' # "panic"
             => \E r \in ReadResults : LoadsOk(r)]_vars

\* With keep set, every window that was created has been closed and the loop
\* is at the top of a further frame.
C7_Witness ==
    /\ keep
    /\ pc = "poll"
    /\ displays = <<>>
    /\ nextHandle > 1

\* C8, as claimed: a frame whose load failed, and in which no display was
\* closed, does not end the loop.
C8_FailedLoadNeverEndsLoop ==
    [][EndsFrame /\ loadFailed /\ (\A k \in 1..Len(displays) : ~displays[k].done)
          => pc' # "exit"]_vars

\* C8, amended: a load that fails with an I/O, parse or analysis error does
\* not panic and the frame goes on with the displays there were; a frame
\* whose load failed and in which no display was closed does not end the loop
\* when a display exists or keep is set (with no display and no keep, as after
\* a failed initial load, the loop ends with that frame); and at the top of
\* the loop a pending notification always leads to a load attempt.
C8_FailedLoadRecoverable ==
    /\ [][\A r \in ReadResults :
             LoadStep(r) /\ FailsToLoad(r)
                 => pc' \in { "poll", "elapsed" } /\ displays' = displays /\ loadFailed']_vars
    /\ [][EndsFrame /\ loadFailed /\ (\A k \in 1..Len(displays) : ~displays[k].done)
             /\ (displays # <<>> \/ keep)
             => pc' = "poll"]_vars
    /\ [][pc = "poll" /\ watcher /\ queue > 0 /\ pc' # pc
             => queue' = queue - 1 /\ \E r \in ReadResults : Reload(r)]_vars

\* The displays of a frame whose reload failed are all drawn and another
\* notification is pending.
C8_Witness ==
    /\ pc = "display"
    /\ loadFailed
    /\ Len(displays) = 2
    /\ i = 3
    /\ Len(drawn) = 2
    /\ queue > 0

\* C9: with --once no watcher is installed, no notification is ever pending,
\* and the only call of load_images is the initial load.
C9_OnceLoadsOnce ==
    /\ [](once => ~watcher /\ queue = 0)
    /\ [][once /\ (\E r \in ReadResults : LoadStep(r)) => pc = "start"]_vars
    /\ [][once /\ pc # "start" => pc' # "start"]_vars

\* With --once, a frame after the first is under way: its first display
\* carries a mouse position of an earlier frame.
C9_Witness ==
    /\ once
    /\ pc = "display"
    /\ i = 1
    /\ Len(displays) = 2
    /\ displays[1].mouse_position # <<0, 0>>

\* C10: with --once and --keep both given, keep is not set, and the frame
\* that ends with no display left ends the loop.
C10_KeepIgnoredWithOnce ==
    /\ [](once /\ pc # "start" => ~keep)
    /\ [](~once /\ pc # "start" => keep = keepArg)
    /\ [][once /\ keepArg /\ EndsFrame /\ displays' = <<>> => pc' = "exit"]_vars
    /\ [](once /\ keepArg /\ pc = "poll" /\ load.result = "none" => displays # <<>>)

\* With both flags the loop has ended after its windows were closed.
C10_Witness ==
    /\ once
    /\ keepArg
    /\ pc = "exit"
    /\ nextHandle > 1

\* The name render gives to a uniform in uniform! { ... }.
UniformName(u) ==
    IF u = "Time" THEN "time" ELSE IF u = "MouseX" THEN "mouse_x" ELSE "mouse_y"

\* The names a render call bound.
BoundNames(call) == { b.name : b \in call.bound }

\* The value a render call bound to a name.
BoundValue(call, name) == (CHOOSE b \in call.bound : b.name = name).value

\* C11: for every list of uniforms a display holds (each of Time, MouseX and
\* MouseY at most once, in that order), render binds exactly the uniforms of
\* the list and no other: the time to `time`, the mouse position divided by
\* the window's size to `mouse_x` and `mouse_y`; and polling and drawing a
\* display never reaches the panic of the last arm.
C11_RenderBindsExactly ==
    /\ [](\A k \in 1..Len(drawn) :
             /\ BoundNames(drawn[k])
                    = { UniformName(drawn[k].uniforms[j]) : j \in 1..Len(drawn[k].uniforms) }
             /\ Cardinality(drawn[k].bound) = Len(drawn[k].uniforms)
             /\ "time" \in BoundNames(drawn[k])
                    => BoundValue(drawn[k], "time") = << duration, NanosPerSec >>
             /\ "mouse_x" \in BoundNames(drawn[k])
                    => BoundValue(drawn[k], "mouse_x") = << displays[k].mouse_position[1], InitDim >>
             /\ "mouse_y" \in BoundNames(drawn[k])
                    => BoundValue(drawn[k], "mouse_y") = << displays[k].mouse_position[2], InitDim >>)
    /\ [](\A k \in 1..Len(displays) : displays[k].uniforms \in { q.uniforms : q \in RenderImages })
    /\ [][pc = "events" => pc' # "panic"]_vars
    /\ [][pc = "events" /\ pc' # "events" => Len(drawn') = Len(drawn) + 1]_vars

\* A display that needs all three uniforms was drawn after the mouse moved
\* over it.
C11_Witness ==
    /\ pc = "display"
    /\ Len(drawn) = 1
    /\ drawn[1].uniforms = << "Time", "MouseX", "MouseY" >>
    /\ BoundNames(drawn[1]) = { "time", "mouse_x", "mouse_y" }
    /\ displays[1].mouse_position = << 1, 1 >>

\* The uniforms declared by the image whose shader compiles to program.
Declares(program) == (CHOOSE q \in Images : q.shader = program).uniforms

\* The display of list ds in the window h.
DisplayOf(ds, h) == ds[CHOOSE k \in 1..Len(ds) : ds[k].handle = h]

\* C12: in every state every display, and every display drawn, has the
\* uniforms declared by the image its program was compiled from; a display's
\* program or uniforms change only in a load step, and a load step leaves
\* the display at position k either with the program and the uniforms it
\* had or with both the program and the uniforms of image k.
C12_ProgramAndUniformsTogether ==
    /\ [](\A k \in 1..Len(displays) : displays[k].uniforms = Declares(displays[k].program))
    /\ [](\A k \in 1..Len(drawn) : drawn[k].uniforms = Declares(drawn[k].program))
    /\ [][\A r \in ReadResults :
             LoadStep(r)
                 => \A k \in 1..Len(displays) :
                       \/ /\ displays'[k].program = displays[k].program
                          /\ displays'[k].uniforms = displays[k].uniforms
                       \/ /\ k <= Len(r.images)
                          /\ Carries(displays'[k], r.images[k])]_vars
    /\ [][(\E h \in Handles(displays) \cap Handles(displays') :
               \/ DisplayOf(displays', h).program # DisplayOf(displays, h).program
               \/ DisplayOf(displays', h).uniforms # DisplayOf(displays, h).uniforms)
             => \E r \in ReadResults : LoadStep(r)]_vars

\* Two displays were drawn, the first with the program and uniforms of s2
\* and the second with those of s1, after the mouse moved over the first.
C12_Witness ==
    /\ pc = "display"
    /\ Len(drawn) = 2
    /\ drawn[1].program = "s2"
    /\ drawn[1].uniforms = << "MouseX", "MouseY" >>
    /\ drawn[2].program = "s1"
    /\ displays[1].mouse_position # << 0, 0 >>

\* C13: a display is drawn, and snapshotted if `save` is set, in the frame
\* in which it polls Closed; the displays that are done are exactly the ones
\* the end of the frame removes; done is never cleared; no display is done at
\* the top of a frame, during a load, or before the for loop reaches it; and a
\* window that was removed is never in the list again (every window entering
\* the list is a new one).
C13_ClosedDisplayLifecycle ==
    /\ [][EndsDisplay
             => /\ Len(drawn') = Len(drawn) + 1
                /\ drawn'[Len(drawn')].handle = displays[i].handle
                /\ save => Len(files') = Len(files) + 1]_vars
    /\ [](pc = "display"
             => \A k \in 1..Len(displays) : k < i => drawn[k].handle = displays[k].handle)
    /\ [][EndsFrame
             => /\ Handles(displays')
                      = { displays[k].handle : k \in { j \in 1..Len(displays) : ~displays[j].done } }
                /\ \A k \in 1..Len(displays') : ~displays'[k].done]_vars
    /\ [][\A h \in Handles(displays) \cap Handles(displays') :
             DisplayOf(displays, h).done => DisplayOf(displays', h).done]_vars
    /\ [](pc \in { "start", "poll", "elapsed" }
             => \A k \in 1..Len(displays) : ~displays[k].done)
    /\ [](pc \in { "display", "events" }
             => \A k \in 1..Len(displays) :
                   (k > i \/ (k = i /\ pc = "display")) => ~displays[k].done)
    /\ [][\A r \in ReadResults :
             LoadStep(r) => /\ \A k \in 1..Len(displays) : ~displays[k].done
                            /\ \A k \in 1..Len(displays') : ~displays'[k].done]_vars
    /\ [](\A k \in 1..Len(displays) :
             /\ displays[k].handle < nextHandle
             /\ \A j \in 1..Len(displays) : j # k => displays[j].handle # displays[k].handle)
    /\ [][/\ nextHandle' >= nextHandle
          /\ \A h \in Handles(displays') : h \in Handles(displays) \/ h >= nextHandle]_vars

\* The first display polled Closed after a press inside the window: it was
\* snapshotted and drawn, and is still in the list until the frame ends.
C13_Witness ==
    /\ pc = "display"
    /\ i = 2
    /\ displays[1].done
    /\ hits > 0
    /\ files = << 0 >>
    /\ Len(drawn) = 1
    /\ drawn[1].handle = displays[1].handle

\* C14, as claimed: the notifications pending when a frame polls the channel
\* are one signal: the reload of that frame leaves none of them to cause a
\* reload in a later frame.
C14_BurstIsOneReload ==
    [][\A r \in ReadResults : Reload(r) => queue' = 0]_vars

\* C14, amended: a frame attempts at most one reload, at its top, and that
\* reload takes exactly one notification out of the channel; a frame that
\* finds a notification pending always reloads; and only a reload takes a
\* notification out: k pending notifications cause a reload in each of the
\* next k frames.
C14_OneReloadPerNotification ==
    /\ [][\A r \in ReadResults : Reload(r) => pc = "poll" /\ queue > 0 /\ queue' = queue - 1]_vars
    /\ [][queue' < queue => \E r \in ReadResults : Reload(r)]_vars
    /\ [][pc = "poll" /\ pc' # "poll" /\ watcher /\ queue > 0
             => \E r \in ReadResults : Reload(r)]_vars
    /\ [][pc # "poll" /\ pc' = "poll" => pc = "start" \/ EndsFrame]_vars
    /\ [][pc = "poll" /\ pc' # "poll" => pc' \in { "elapsed", "panic" }]_vars

\* A reload has just been attempted and a notification is still pending.
C14_Witness ==
    /\ pc = "elapsed"
    /\ load.result \in { "ok", "io", "parse", "analyse" }
    /\ load.m > 0
    /\ queue = 1

\* C15: a frame that finds a notification pending sets `time` to the clock's
\* instant in the step that attempts the reload, whether load_images then
\* returns Ok or Err or panics; a frame that finds none leaves `time` as it
\* was; and nothing but the start of main and such a reload changes `time`,
\* so it stays reset for the rest of the frame and the frames after.
C15_EpochResetOnNotification ==
    /\ [][\A r \in ReadResults : Reload(r) => time' = now /\ now' = now]_vars
    /\ [][\A r \in ReadResults :
             Reload(r) /\ FailsToLoad(r) => time' = now /\ loadFailed' /\ pc' = "elapsed"]_vars
    /\ [][pc = "poll" /\ pc' # "poll" /\ ~(watcher /\ queue > 0) => time' = time]_vars
    /\ [][time' # time => pc = "start" \/ \E r \in ReadResults : Reload(r)]_vars
    /\ [](time <= now)

\* The display of a frame whose reload failed has been drawn: `time` is the
\* instant of that reload and the clock has moved on since.
C15_Witness ==
    /\ pc = "display"
    /\ loadFailed
    /\ Len(drawn) = 1
    /\ time > 0
    /\ now > time

\* C16: a load that succeeds changes, of a display at position k that was
\* there before and has an image, only the program, the uniforms and the
\* title, which becomes the 0-based position; the window, the vertex buffer,
\* the mouse position and done are as they were.
C16_ReloadKeepsWindowState ==
    [][\A r \in ReadResults :
          LoadsOk(r)
              => \A k \in 1..Len(displays) :
                    k <= Len(r.images)
                        => /\ displays'[k] = [displays[k] EXCEPT !.program = r.images[k].shader,
                                                                 !.uniforms = r.images[k].uniforms,
                                                                 !.title = k - 1]
                           /\ displays'[k].handle = displays[k].handle
                           /\ displays'[k].buffer = displays[k].buffer
                           /\ displays'[k].mouse_position = displays[k].mouse_position
                           /\ displays'[k].done = displays[k].done]_vars

\* A reload has just succeeded against two displays over which the mouse
\* had moved; both still have that mouse position and their windows.
C16_Witness ==
    /\ pc = "elapsed"
    /\ load = [result |-> "ok", m |-> 2, n |-> 2]
    /\ displays[1].mouse_position = << 1, 1 >>
    /\ displays[2].mouse_position = << 1, 1 >>
    /\ displays[1].handle = 1
    /\ displays[2].handle = 2

\* The displays of ds before position k that are done.
DoneBefore(ds, k) == Cardinality({ j \in 1..(k - 1) : ds[j].done })

\* C17: the end of a frame removes the displays that are done and moves
\* every other display down by the number of done displays before it,
\* unchanged; and a load that succeeds gives the display at position k the
\* program, the uniforms and the title of image k, whatever image the
\* window showed and whatever title it had: a window that moved down is
\* bound to the image of its new position.
C17_ReconcileByPosition ==
    /\ [][EndsFrame
             => /\ Len(displays') = Len(displays) - DoneBefore(displays, Len(displays) + 1)
                /\ \A k \in 1..Len(displays) :
                      ~displays[k].done
                          => displays'[k - DoneBefore(displays, k)] = displays[k]]_vars
    /\ [][\A r \in ReadResults :
             LoadsOk(r)
                 => \A k \in 1..Len(displays) :
                       k <= Len(r.images)
                           => /\ displays'[k].handle = displays[k].handle
                              /\ Carries(displays'[k], r.images[k])
                              /\ displays'[k].title = k - 1]_vars
    /\ [][\A r \in ReadResults :
             LoadsOk(r) /\ Len(displays) = 1 /\ Len(r.images) = 1 /\ displays[1].title = 1
                 => /\ Len(displays') = 1
                    /\ displays'[1].handle = displays[1].handle
                    /\ displays'[1].title = 0
                    /\ Carries(displays'[1], r.images[1])]_vars

\* The window created second is the only display left, at the first
\* position, and a reload of one image has just succeeded: it has the title
\* and the program of the first image.
C17_Witness ==
    /\ pc = "elapsed"
    /\ load = [result |-> "ok", m |-> 1, n |-> 1]
    /\ Len(displays) = 1
    /\ displays[1].handle = 2
    /\ displays[1].title = 0
    /\ displays[1].program = "s2"

\* The positions of the images whose shader does not compile.
BadImages(images) == { k \in 1..Len(images) : ~FromSource(images[k].shader).ok }

\* The first of them.
FirstBad(images) == CHOOSE k \in BadImages(images) : \A j \in BadImages(images) : k <= j

\* C18: a load of a script whose image k is the first that does not compile
\* panics: the displays before position k have the programs and uniforms of
\* their images, new windows included; the displays from position k on have
\* the program and the uniforms they had, and no display is added at or
\* after k; and after the panic nothing happens any more: no frame is
\* rendered.
C18_CompileFailureIsFatal ==
    /\ [][\A r \in ReadResults :
             LoadStep(r) /\ r.kind = "script" /\ BadImages(r.images) # {}
                 => LET k == FirstBad(r.images)
                    IN  /\ pc' = "panic"
                        /\ Len(displays') = (IF Len(displays) >= k THEN Len(displays) ELSE k - 1)
                        /\ \A j \in 1..(k - 1) : Carries(displays'[j], r.images[j])
                        /\ \A j \in k..Len(displays) :
                              /\ displays'[j].handle = displays[j].handle
                              /\ displays'[j].program = displays[j].program
                              /\ displays'[j].uniforms = displays[j].uniforms
                        /\ drawn' = <<>>]_vars
    /\ [][pc = "panic" => pc' = "panic" /\ drawn' = drawn /\ displays' = displays]_vars

\* A reload of two images, the second of which does not compile, has
\* panicked against two displays of s1: the first has the program of s2,
\* the second still that of s1, and nothing was drawn.
C18_Witness ==
    /\ pc = "panic"
    /\ load = [result |-> "panic", m |-> 2, n |-> 2]
    /\ displays[1].program = "s2"
    /\ displays[2].program = "s1"
    /\ displays[2].uniforms = << "Time" >>
    /\ drawn = <<>>

\* The step that computes `duration`.
ComputesDuration == pc = "elapsed" /\ pc' = "display"

\* The distance between two numbers.
Dist(a, b) == IF a >= b THEN a - b ELSE b - a

====
